---------------------------- MODULE Spec2Model ----------------------------
(***************************************************************************)
(* A model of leptos-image's optimizer (src/src/optimizer.rs) and of its   *)
(* descriptor codec.                                                       *)
(*                                                                         *)
(* Spec         : the concurrent state machine of create_image (in_flight  *)
(*                map, entry mutexes, join handles, semaphore, disk).      *)
(*                Each call of create_image is one process; a step is one  *)
(*                access to shared state or one await point of the code.   *)
(* SpecOne      : Spec with every call issued for one request.             *)
(* SpecWrite    : SpecOne with the write of the output file in two steps,  *)
(*                its creation and its end                                 *)
(* SpecDistinct : Spec constructed with no_upscale off, so that the two    *)
(*                requests are two distinct descriptors.                   *)
(* SpecLive     : Spec under fair scheduling.                              *)
(* SpecClamp    : the upscale policy maybe_clamp on drawn requests.        *)
(* SpecCodec    : the pure codec functions of CachedImage applied to       *)
(*                descriptors drawn from a bounded set.                    *)
(* SpecOrient   : the orientation correction of the transform pipeline on  *)
(*                source images drawn with their EXIF orientation.         *)
(* SpecBlur     : the blur placeholders: blur_cache, its TTL, the handler  *)
(*                that fills it, restart and preload_disk_cache.           *)
(*                                                                         *)
(* Strings that the code inspects character by character are sequences of  *)
(* one-character strings.                                                  *)
(***************************************************************************)
EXTENDS Integers, Sequences, FiniteSets, TLC

(***************************************************************************)
(* Bounds of the model.                                                    *)
(***************************************************************************)
\* number of callers (request handlers) that may be inside create_image at
\* the same time; each issues any number of calls, one after the other
NumCallers == 2
\* the `parallelism` the optimizer is constructed with
Parallelism == 2

(***************************************************************************)
(* Descriptors: CachedImage { src, option }, option a Resize or a Blur.    *)
(***************************************************************************)
Resize(w, h, q) == [tag |-> "r", width |-> w, height |-> h, quality |-> q]

Blur(w, h, sw, sh, s) ==
    [tag |-> "b", width |-> w, height |-> h,
     svg_width |-> sw, svg_height |-> sh, sigma |-> s]

CachedImage(src, option) == [src |-> src, option |-> option]

\* placeholder of a call that has not been issued yet
NoImage == CachedImage(<< >>, [tag |-> "none"])

(***************************************************************************)
(* The file system below root_file_path, as far as the code reads it.      *)
(* SourceInfo(src) is what maybe_clamp and image::open find at the source  *)
(* path: whether it exists, its length, whether it decodes, its size.      *)
(***************************************************************************)
SrcA == << "a" >>

\* a source larger than SrcA, an empty file, and a file that image::open
\* cannot read as an image (not an image, or not readable)
SrcB == << "b" >>

SrcEmpty == << "e" >>

SrcGarbage == << "g" >>

\* the sources of the blur placeholders: a nested path, a plain file name
BlurSrcs ==
    { << "i", "/", "t", ".", "p", "n", "g" >>, << "a", ".", "p" >> }

\* width and height of SrcB
SrcSize == 2

SourceInfo(src) ==
    IF src = SrcA \/ src \in BlurSrcs
    THEN [exists |-> TRUE, len |-> 1, decodable |-> TRUE, w |-> 1, h |-> 1]
    ELSE IF src = SrcB
    THEN [exists |-> TRUE, len |-> 1, decodable |-> TRUE,
          w |-> SrcSize, h |-> SrcSize]
    ELSE IF src = SrcEmpty
    THEN [exists |-> TRUE, len |-> 0, decodable |-> FALSE, w |-> 0, h |-> 0]
    ELSE IF src = SrcGarbage
    THEN [exists |-> TRUE, len |-> 1, decodable |-> FALSE, w |-> 0, h |-> 0]
    ELSE [exists |-> FALSE, len |-> 0, decodable |-> FALSE, w |-> 0, h |-> 0]

\* a clamp that always takes the source's dimension
MinSource(a, b) == b

\* u32::min
Min(a, b) == IF a <= b THEN a ELSE b

\* the descriptors the callers of this model ask for.  The optimizer is
\* constructed with no_upscale set, so both are clamped to the 1x1 source
\* and meet under one key.
Requests ==
    { CachedImage(SrcA, Resize(1, 1, 75)),
      CachedImage(SrcA, Resize(2, 1, 75)) }

(***************************************************************************)
(* maybe_clamp: Ok(Some(image)) as [ok |-> TRUE, image |-> ...], an error  *)
(* as [ok |-> FALSE, err |-> ...].                                         *)
(***************************************************************************)
\* a policy that opens the source before it looks at no_upscale and at the
\* operation
maybe_clamp_probing(noUpscale, image) ==
    LET r    == image.option
        info == SourceInfo(image.src)
    IN  IF ~info.exists THEN [ok |-> TRUE, image |-> image]
        ELSE IF info.len = 0 THEN [ok |-> TRUE, image |-> image]
        ELSE IF ~info.decodable THEN [ok |-> FALSE, err |-> "ErrImage"]
        ELSE IF ~noUpscale \/ r.tag # "r" THEN [ok |-> TRUE, image |-> image]
        ELSE IF r.width <= info.w /\ r.height <= info.h
             THEN [ok |-> TRUE, image |-> image]
        ELSE [ok |-> TRUE,
              image |-> CachedImage(image.src,
                            Resize(Min(r.width, info.w),
                                   Min(r.height, info.h), r.quality))]

maybe_clamp(noUpscale, image) ==
    LET r    == image.option
        info == SourceInfo(image.src)
    IN  IF ~noUpscale THEN [ok |-> TRUE, image |-> image]
        ELSE IF r.tag # "r" THEN [ok |-> TRUE, image |-> image]
        ELSE IF ~info.exists THEN [ok |-> TRUE, image |-> image]
        ELSE IF info.len = 0 THEN [ok |-> TRUE, image |-> image]
        ELSE IF ~info.decodable THEN [ok |-> FALSE, err |-> "ErrImage"]
        ELSE IF r.width <= info.w /\ r.height <= info.h
             THEN [ok |-> TRUE, image |-> image]
        ELSE [ok |-> TRUE,
              image |-> CachedImage(image.src,
                            Resize(Min(r.width, info.w),
                                   Min(r.height, info.h), r.quality))]

\* every descriptor that can be a key of in_flight and a file of the cache
Keys ==
    Requests \cup
    { maybe_clamp(TRUE, r).image : r \in { q \in Requests : maybe_clamp(TRUE, q).ok } }

\* the blur descriptors of SpecBlur: keys of blur_cache, .svg files of the
\* disk cache
BlurKeys == { CachedImage(src, Blur(10, 10, 100, 50, 8)) : src \in BlurSrcs }

Callers == 1 .. NumCallers

(***************************************************************************)
(* What create_optimized_image can end with, on its blocking thread:       *)
(* Ok(()), an ImageError (source not decodable), an IOError (directory or  *)
(* file write), or a panic of the closure (the unwrap of the encoder),     *)
(* which the join handle reports as a JoinError.                           *)
(***************************************************************************)
TransformOutcomes(image) ==
    LET info == SourceInfo(image.src)
    IN  IF info.exists /\ info.decodable
        THEN {"Ok", "IOError", "Panicked"}
        ELSE {"ImageError"}

\* the match on the join handle's result, lines 212-216 and 252-256
ResultOf(output) ==
    CASE output = "Ok"         -> "OkTrue"
      [] output = "ImageError" -> "ErrImage"
      [] output = "IOError"    -> "ErrIO"
      [] output = "Panicked"   -> "ErrJoin"
      [] OTHER                 -> "None"

\* the bytes create_optimized_image writes for a descriptor
Encoded(k) == [of |-> k]

\* a file std::fs::write has created or truncated and not yet filled
Partial(k) == [part |-> k]

NoFile == [of |-> NoImage]

(***************************************************************************)
(* The Arc<Mutex<Option<JoinHandle>>> values.  The Arc made at line 221 by *)
(* the call of caller c is entries[c] while that call lasts.  When the     *)
(* call ends and leaves its Arc in the map, the Arc becomes stale[k], k    *)
(* its key.  in_flight[k] is 0 (no entry), a caller (the Arc of its call)  *)
(* or Stale (stale[k]).  A task whose join handle has been dropped runs on *)
(* detached; detached[k] counts the detached tasks running for key k,      *)
(* those that have not begun to write the file and those writing it.       *)
(***************************************************************************)
VARIABLES
    parallelism,   \* the value ImageOptimizer::new was given
    no_upscale,    \* the optimizer's no_upscale flag
    permits,       \* permits available in the semaphore
    closed,        \* the semaphore has been closed
    in_flight,     \* key -> 0, the caller whose Arc is under it, or Stale
    entries,       \* caller -> the Arc of its call
    stale,         \* key -> the Arc left under it by a call that has ended
    detached,      \* key -> numbers of detached tasks for it, by stage
    disk,          \* key -> the content of the output file, NoFile when absent
    pc,            \* caller -> where it is in create_image, "idle" outside
    image,         \* caller -> the descriptor its call was issued for
    final,         \* caller -> final_image of the call in progress
    res,           \* caller -> `res` of line 247, with the task output it came from
    okTrue,        \* key -> some call for it has returned Ok(true) (history)
    unwound,       \* some call ended by a panic or by being dropped (history)
    lastRet,       \* what the call that ended in the last step returned
    codec,         \* SpecCodec: a descriptor and what the codec made of it
    policy,        \* SpecClamp: a request and what maybe_clamp made of it
    pipeline,      \* SpecOrient: a source image and what the pipeline made of it
    blur_ttl_seconds, \* the optimizer's Option<u64>
    blur_cache,    \* blur key -> its BlurEntry, NoBlur when absent
    now,           \* Utc::now(), in seconds
    lastBlur       \* what the placeholder operation of the last step did

vars == << parallelism, no_upscale, permits, closed, in_flight, entries, stale,
           detached, disk, pc, image, final, res, okTrue, unwound, lastRet, codec,
           policy, pipeline, blur_ttl_seconds, blur_cache, now, lastBlur >>

\* the in-memory placeholders and the clock they are aged by
placeholders == << blur_ttl_seconds, blur_cache, now, lastBlur >>

\* the variables of the optimizer
optimizer == << parallelism, no_upscale, permits, closed, in_flight, entries,
                stale, detached, disk, pc, image, final, res, okTrue, unwound,
                lastRet, placeholders >>

Stale == NumCallers + 1

(***************************************************************************)
(* An Arc: handle (the Option is Some), mutex (the caller holding the      *)
(* lock, 0 when free), orphan (its producer was dropped after storing the  *)
(* handle and before anyone took the task's output: history), and the task *)
(* behind the handle: stage (none, running, finished, consumed) and the    *)
(* output held while finished.                                             *)
(***************************************************************************)
FreeEntry ==
    [handle |-> FALSE, mutex |-> 0, orphan |-> FALSE,
     stage |-> "none", output |-> "none"]

NoRes == [result |-> "None", output |-> "none"]

\* no descriptor in the codec (Spec and SpecDistinct leave it so)
NoCodec == [stage |-> "none"]

NoRet == [image |-> NoImage, key |-> NoImage, result |-> "None", from |-> "none",
          polled |-> FALSE, output |-> "none", orphan |-> FALSE]

\* no request in the upscale policy (all but SpecClamp leave it so)
NoPolicy == [stage |-> "none"]

\* no source image in the pipeline (every specification but SpecOrient)
NoPipeline == [stage |-> "none"]

\* Option<u64>: None, Some(n)
NoTtl == [some |-> FALSE, v |-> 0]

SomeTtl(n) == [some |-> TRUE, v |-> n]

\* no BlurEntry under a key
NoBlur == [svg_data |-> NoFile, created_at |-> 0]

BlurEntry(svg, t) == [svg_data |-> svg, created_at |-> t]

NoBlurRet == [op |-> "none", key |-> NoImage, result |-> "none",
              hit |-> FALSE, age |-> 0, svg |-> NoFile]

\* the state ImageOptimizer::new(_, _, par, nu, ttl) returns, no call issued
ConstructTtl(par, nu, ttl) ==
    /\ parallelism = par
    /\ no_upscale = nu
    /\ permits = par
    /\ closed = FALSE
    /\ in_flight = [k \in Keys |-> 0]
    /\ entries = [c \in Callers |-> FreeEntry]
    /\ stale = [k \in Keys |-> FreeEntry]
    /\ detached = [k \in Keys |-> [running |-> 0, writing |-> 0]]
    /\ disk = [k \in Keys \cup BlurKeys |-> NoFile]
    /\ pc = [c \in Callers |-> "idle"]
    /\ image = [c \in Callers |-> NoImage]
    /\ final = [c \in Callers |-> NoImage]
    /\ res = [c \in Callers |-> NoRes]
    /\ okTrue = [k \in Keys |-> FALSE]
    /\ unwound = FALSE
    /\ lastRet = NoRet
    /\ blur_ttl_seconds = ttl
    /\ blur_cache = [k \in BlurKeys |-> NoBlur]
    /\ now = 0
    /\ lastBlur = NoBlurRet

Construct(par, nu) ==
    ConstructTtl(par, nu, NoTtl)

\* no_upscale set: the two Requests are clamped to one descriptor
Init ==
    /\ Construct(Parallelism, TRUE)
    /\ codec = NoCodec
    /\ policy = NoPolicy
    /\ pipeline = NoPipeline

\* no_upscale clear: the two Requests are two distinct descriptors
InitDistinct ==
    /\ Construct(Parallelism, FALSE)
    /\ codec = NoCodec
    /\ policy = NoPolicy
    /\ pipeline = NoPipeline

(***************************************************************************)
(* Helpers over the state.                                                 *)
(***************************************************************************)
\* callers inside the if-let body of lines 205-219.  They hold a Ref into
\* the map (the read lock of the key's shard) and a clone of the Arc it
\* points to.  insert and remove of that key take the shard's write lock,
\* so they wait until the Ref is dropped: the Arc of such a caller is
\* always the one under its key.
Waiting == { c \in Callers : pc[c] \in {"wlock", "wawait"} }

OtherRef(c, k) == \E o \in Waiting \ {c} : final[o] = k

\* the Arc under key k (in_flight[k] # 0)
EntryAt(k) == IF in_flight[k] = Stale THEN stale[k] ELSE entries[in_flight[k]]

\* callers whose call has spawned its transform
Spawned == { c \in Callers : pc[c] \in {"store", "plock", "pawait", "remove"} }

\* the stages of a task that is executing: before it writes the file, and
\* between the creation of the file and the end of the write
Active == {"running", "writing"}

\* number of transforms running for key k, and in all
RunningFor(k) ==
    Cardinality({ c \in Callers : final[c] = k /\ entries[c].stage \in Active })
    + (IF stale[k].stage \in Active THEN 1 ELSE 0)
    + detached[k].running + detached[k].writing

RECURSIVE Sum(_, _)
Sum(f, S) == IF S = {} THEN 0
             ELSE LET x == CHOOSE y \in S : TRUE IN f[x] + Sum(f, S \ {x})

Running == Sum([k \in Keys |-> RunningFor(k)], Keys)

InProgress == { c \in Callers : pc[c] # "idle" }

\* a file_exists that never finds the file
file_exists_never(k) == FALSE

\* file_exists(&final_path)
file_exists(k) == disk[k] # NoFile

(***************************************************************************)
(* The end of a call: its locals are dropped and the caller is free for    *)
(* its next call.  lastRet records, for the properties, the key of the     *)
(* call (img as requested, k as clamped), what it returned (r), whether it *)
(* polled a join handle and the                                            *)
(* output o that task held when polled, and whether the Arc polled was     *)
(* one whose producer had been dropped.                                    *)
(***************************************************************************)
FinishFor(c, img, k, r, polled, o, orph) ==
    /\ pc' = [pc EXCEPT ![c] = "idle"]
    /\ image' = [image EXCEPT ![c] = NoImage]
    /\ final' = [final EXCEPT ![c] = NoImage]
    /\ res' = [res EXCEPT ![c] = NoRes]
    /\ okTrue' = IF r = "OkTrue" THEN [okTrue EXCEPT ![k] = TRUE] ELSE okTrue
    /\ unwound' = (unwound \/ r \in {"Panic", "Abandoned"})
    /\ lastRet' = [image |-> img, key |-> k, result |-> r, from |-> pc[c],
                   polled |-> polled, output |-> o, orphan |-> orph]
    /\ UNCHANGED << codec, policy, pipeline, placeholders >>

\* the end of a call that has gone past the disk check
Finish(c, k, r, polled, o, orph) ==
    FinishFor(c, image[c], k, r, polled, o, orph)

\* a step that is not the end of a call
NoReturn == /\ lastRet' = NoRet
            /\ UNCHANGED << okTrue, unwound, codec, policy, pipeline,
                            placeholders >>

\* the Arc under key k becomes r
PutAt(k, r) ==
    /\ entries' = IF in_flight[k] = Stale THEN entries
                  ELSE [entries EXCEPT ![in_flight[k]] = r]
    /\ stale' = IF in_flight[k] = Stale THEN [stale EXCEPT ![k] = r] ELSE stale

(***************************************************************************)
(* The Arc under key k leaves the map (overwritten at line 222 or removed  *)
(* at line 250).  The Arc of a call in progress lives on in that call; a   *)
(* stale one is dropped, and a task still running behind it is detached.   *)
(***************************************************************************)
DropStale(k) ==
    /\ stale' = [stale EXCEPT ![k] = FreeEntry]
    /\ detached' = IF in_flight[k] = Stale /\ stale[k].stage \in Active
                   THEN [detached EXCEPT ![k][stale[k].stage] = @ + 1]
                   ELSE detached

(***************************************************************************)
(* The call of caller c ends with its Arc in state e.  If the Arc is still *)
(* under the key it stays there, stale; if not it is dropped.  A running   *)
(* task is detached when its handle goes: with the Arc, or with the local  *)
(* `jh` when the handle was never stored.                                  *)
(***************************************************************************)
Leave(c, e) ==
    LET k     == final[c]
        inMap == in_flight[k] = c
        keeps == inMap /\ e.handle
    IN  /\ in_flight' = IF inMap THEN [in_flight EXCEPT ![k] = Stale] ELSE in_flight
        /\ stale' = IF ~inMap THEN stale
                    ELSE IF keeps THEN [stale EXCEPT ![k] = e]
                    ELSE [stale EXCEPT ![k] = [e EXCEPT !.stage = "none",
                                                        !.output = "none"]]
        /\ entries' = [entries EXCEPT ![c] = FreeEntry]
        /\ detached' = IF e.stage \in Active /\ ~keeps
                       THEN [detached EXCEPT ![k][e.stage] = @ + 1]
                       ELSE detached

(***************************************************************************)
(* create_image, lines 183-202: maybe_clamp, the output path, and the      *)
(* disk check.  Nothing here writes shared state, so the call's first step *)
(* is the moment file_exists reads the disk.  A new call is issued by the  *)
(* first idle caller (idle callers are interchangeable).                   *)
(***************************************************************************)
Start(c, img) ==
    /\ pc[c] = "idle"
    /\ \A o \in 1 .. c - 1 : pc[o] # "idle"
    /\ LET m == maybe_clamp(no_upscale, img)
       IN  IF ~m.ok
           THEN FinishFor(c, img, img, m.err, FALSE, "none", FALSE)
           ELSE IF file_exists(m.image)
           THEN FinishFor(c, img, m.image, "OkFalse", FALSE, "none", FALSE)
           ELSE /\ pc' = [pc EXCEPT ![c] = "get"]
                /\ image' = [image EXCEPT ![c] = img]
                /\ final' = [final EXCEPT ![c] = m.image]
                /\ NoReturn
                /\ UNCHANGED res
    /\ UNCHANGED << parallelism, no_upscale, permits, closed, in_flight,
                    entries, stale, detached, disk >>

(***************************************************************************)
(* line 205: self.in_flight.get(&final_image).  A hit keeps the Ref for    *)
(* the whole if-let body.                                                  *)
(***************************************************************************)
Get(c) ==
    /\ pc[c] = "get"
    /\ pc' = [pc EXCEPT ![c] = IF in_flight[final[c]] # 0 THEN "wlock" ELSE "insert"]
    /\ NoReturn
    /\ UNCHANGED << parallelism, no_upscale, permits, closed, in_flight,
                    entries, stale, detached, disk, image, final, res >>

(***************************************************************************)
(* lines 207-209: jarc.lock().await, then the test of *guard.  With None   *)
(* in the Arc the if-let body ends: the guard and the Ref are dropped and  *)
(* the call goes on to line 221 as if it had found no entry.               *)
(***************************************************************************)
WaiterLock(c) ==
    /\ pc[c] = "wlock"
    /\ EntryAt(final[c]).mutex = 0
    /\ IF EntryAt(final[c]).handle
       THEN /\ pc' = [pc EXCEPT ![c] = "wawait"]
            /\ PutAt(final[c], [EntryAt(final[c]) EXCEPT !.mutex = c])
       ELSE /\ pc' = [pc EXCEPT ![c] = "insert"]
            /\ UNCHANGED << entries, stale >>
    /\ NoReturn
    /\ UNCHANGED << parallelism, no_upscale, permits, closed, in_flight,
                    detached, disk, image, final, res >>

(***************************************************************************)
(* Polling the JoinHandle of Arc r: Pending while the task runs; the       *)
(* task's output the first time after it finished, which moves the output  *)
(* out of the task; a panic ("JoinHandle polled after completion") after   *)
(* that.                                                                   *)
(***************************************************************************)
PollReady(r) == r.stage \in {"finished", "consumed"}

PollResult(r) == IF r.stage = "consumed" THEN "Panic" ELSE ResultOf(r.output)

TakeOutput(r) == [r EXCEPT !.stage = "consumed", !.output = "none"]

(***************************************************************************)
(* lines 211-216: jh.await on the existing handle and the return.  The     *)
(* guard and the Ref are dropped on the way out (also when unwinding).     *)
(***************************************************************************)
WaiterJoin(c) ==
    /\ pc[c] = "wawait"
    /\ PollReady(EntryAt(final[c]))
    /\ Finish(c, final[c], PollResult(EntryAt(final[c])), TRUE,
              EntryAt(final[c]).output, EntryAt(final[c]).orphan)
    /\ PutAt(final[c], [TakeOutput(EntryAt(final[c])) EXCEPT !.mutex = 0])
    /\ UNCHANGED << parallelism, no_upscale, permits, closed, in_flight,
                    detached, disk >>

(***************************************************************************)
(* lines 221-222: a fresh Arc<Mutex<None>> put under the key, replacing    *)
(* whatever Arc is there.                                                  *)
(***************************************************************************)
Insert(c) ==
    /\ pc[c] = "insert"
    /\ ~OtherRef(c, final[c])
    /\ in_flight' = [in_flight EXCEPT ![final[c]] = c]
    /\ entries' = [entries EXCEPT ![c] = FreeEntry]
    /\ DropStale(final[c])
    /\ pc' = [pc EXCEPT ![c] = "acquire"]
    /\ NoReturn
    /\ UNCHANGED << parallelism, no_upscale, permits, closed, disk, image, final, res >>

(***************************************************************************)
(* lines 225-236: semaphore.acquire_owned().await? and spawn_blocking.     *)
(* A closed semaphore makes acquire fail and `?` returns the error at      *)
(* once; the Arc inserted at line 222 stays in the map.  The permit moves  *)
(* into the closure, so the task holds it from here to its end.            *)
(***************************************************************************)
\* a semaphore that never makes a caller wait
PermitAlways == TRUE

PermitAvailable == permits > 0

Acquire(c) ==
    /\ pc[c] = "acquire"
    /\ IF closed
       THEN /\ Finish(c, final[c], "ErrAcquire", FALSE, "none", FALSE)
            /\ Leave(c, entries[c])
            /\ UNCHANGED permits
       ELSE /\ PermitAvailable
            /\ permits' = permits - 1
            /\ entries' = [entries EXCEPT ![c].stage = "running"]
            /\ pc' = [pc EXCEPT ![c] = "store"]
            /\ NoReturn
            /\ UNCHANGED << in_flight, stale, detached, image, final, res >>
    /\ UNCHANGED << parallelism, no_upscale, closed, disk >>

(***************************************************************************)
(* lines 238-242: lock the new Arc, store Some(jh), unlock.                *)
(***************************************************************************)
StoreHandle(c) ==
    /\ pc[c] = "store"
    /\ entries[c].mutex = 0
    /\ entries' = [entries EXCEPT ![c].handle = TRUE]
    /\ pc' = [pc EXCEPT ![c] = "plock"]
    /\ NoReturn
    /\ UNCHANGED << parallelism, no_upscale, permits, closed, in_flight, stale,
                    detached, disk, image, final, res >>

(***************************************************************************)
(* line 245: the producer locks its Arc again; the guard lives to the end  *)
(* of the function.                                                        *)
(***************************************************************************)
ProducerLock(c) ==
    /\ pc[c] = "plock"
    /\ entries[c].mutex = 0
    /\ entries' = [entries EXCEPT ![c].mutex = c]
    /\ pc' = [pc EXCEPT ![c] = "pawait"]
    /\ NoReturn
    /\ UNCHANGED << parallelism, no_upscale, permits, closed, in_flight, stale,
                    detached, disk, image, final, res >>

(***************************************************************************)
(* lines 246-247: handle_ref.await.  A panic unwinds the call: the guard   *)
(* is dropped, line 250 is never reached.  Otherwise `res` is kept for the *)
(* match at line 252 and the call goes on to the remove.                   *)
(***************************************************************************)
ProducerJoin(c) ==
    /\ pc[c] = "pawait"
    /\ PollReady(entries[c])
    /\ IF PollResult(entries[c]) = "Panic"
       THEN /\ Finish(c, final[c], "Panic", TRUE, entries[c].output,
                      entries[c].orphan)
            /\ Leave(c, [entries[c] EXCEPT !.mutex = 0])
       ELSE /\ pc' = [pc EXCEPT ![c] = "remove"]
            /\ res' = [res EXCEPT ![c] = [result |-> PollResult(entries[c]),
                                          output |-> entries[c].output]]
            /\ entries' = [entries EXCEPT ![c] = TakeOutput(entries[c])]
            /\ NoReturn
            /\ UNCHANGED << in_flight, stale, detached, image, final >>
    /\ UNCHANGED << parallelism, no_upscale, permits, closed, disk >>

(***************************************************************************)
(* lines 250-256: self.in_flight.remove(&final_image), which removes the   *)
(* Arc now under the key whoever inserted it, then the return: the guard   *)
(* taken at line 245 and the call's own Arc are dropped.                   *)
(***************************************************************************)
Remove(c) ==
    /\ pc[c] = "remove"
    /\ ~OtherRef(c, final[c])
    /\ in_flight' = [in_flight EXCEPT ![final[c]] = 0]
    /\ entries' = [entries EXCEPT ![c] = FreeEntry]
    /\ DropStale(final[c])
    /\ Finish(c, final[c], res[c].result, TRUE, res[c].output, FALSE)
    /\ UNCHANGED << parallelism, no_upscale, permits, closed, disk >>

(***************************************************************************)
(* The closure of lines 232-236 runs create_optimized_image (lines         *)
(* 340-369).  std::fs::write (lines 360, 365) creates or truncates the     *)
(* file and then writes the bytes: in between the file exists and is not   *)
(* complete.  A task is "running" until it creates the file and "writing"  *)
(* from then to its end.  Once it writes it ends with Ok or an IOError     *)
(* (the write went through, or failed).  A task that ends with Ok while    *)
(* "running" has created and filled the file with no step of anyone else   *)
(* in between: Spec, SpecOne, SpecDistinct and SpecLive take the write so, *)
(* as one step, and SpecWrite adds the steps that create the file.  When   *)
(* the task ends _permit is dropped.  TaskWrite and TaskFinish are the     *)
(* task of a call in progress, StaleTask... the task behind a stale Arc,   *)
(* DetachedTask... a detached task.                                        *)
(***************************************************************************)
\* a task at `stage` for key k can end with output o
MayEnd(stage, k, o) ==
    /\ o \in TransformOutcomes(k)
    /\ stage = "writing" => o \in {"Ok", "IOError"}

\* a task for key k gets as far as the write
MayWrite(k) == "Ok" \in TransformOutcomes(k)

\* a permit that goes back only when the transform succeeded
ReleasedOnOk(o) == IF o = "Ok" THEN permits + 1 ELSE permits

\* line 234: _permit is dropped when the closure ends, however it ends
Released(o) == permits + 1

TaskBegin(k) ==
    /\ MayWrite(k)
    /\ disk' = [disk EXCEPT ![k] = Partial(k)]
    /\ NoReturn
    /\ UNCHANGED << parallelism, no_upscale, permits, closed, in_flight, pc,
                    image, final, res >>

TaskEnd(k, o) ==
    /\ disk' = IF o = "Ok" THEN [disk EXCEPT ![k] = Encoded(k)] ELSE disk
    /\ permits' = Released(o)
    /\ NoReturn
    /\ UNCHANGED << parallelism, no_upscale, closed, in_flight, pc, image, final, res >>

TaskWrite(c) ==
    /\ entries[c].stage = "running"
    /\ TaskBegin(final[c])
    /\ entries' = [entries EXCEPT ![c].stage = "writing"]
    /\ UNCHANGED << stale, detached >>

TaskFinish(c, o) ==
    /\ entries[c].stage \in Active
    /\ MayEnd(entries[c].stage, final[c], o)
    /\ TaskEnd(final[c], o)
    /\ entries' = [entries EXCEPT ![c].stage = "finished", ![c].output = o]
    /\ UNCHANGED << stale, detached >>

StaleTaskWrite(k) ==
    /\ stale[k].stage = "running"
    /\ TaskBegin(k)
    /\ stale' = [stale EXCEPT ![k].stage = "writing"]
    /\ UNCHANGED << entries, detached >>

StaleTaskFinish(k, o) ==
    /\ stale[k].stage \in Active
    /\ MayEnd(stale[k].stage, k, o)
    /\ TaskEnd(k, o)
    /\ stale' = [stale EXCEPT ![k].stage = "finished", ![k].output = o]
    /\ UNCHANGED << entries, detached >>

DetachedTaskWrite(k) ==
    /\ detached[k].running > 0
    /\ TaskBegin(k)
    /\ detached' = [detached EXCEPT ![k].running = @ - 1, ![k].writing = @ + 1]
    /\ UNCHANGED << entries, stale >>

DetachedTaskFinish(k, o) ==
    /\ \E stage \in Active :
          /\ detached[k][stage] > 0
          /\ MayEnd(stage, k, o)
          /\ detached' = [detached EXCEPT ![k][stage] = @ - 1]
    /\ TaskEnd(k, o)
    /\ UNCHANGED << entries, stale >>

(***************************************************************************)
(* The caller drops the future of create_image (a request handler whose    *)
(* client went away).  A future can be dropped only where it is suspended: *)
(* at an await that is not ready.  Its locals are dropped: the Ref, the    *)
(* mutex guard, the Arc, and a join handle not yet stored.                 *)
(***************************************************************************)
Suspended(c) ==
    \/ pc[c] = "wlock"   /\ EntryAt(final[c]).mutex # 0
    \/ pc[c] = "wawait"  /\ ~PollReady(EntryAt(final[c]))
    \/ pc[c] = "acquire" /\ ~closed /\ ~PermitAvailable
    \/ pc[c] = "store"   /\ entries[c].mutex # 0
    \/ pc[c] = "plock"   /\ entries[c].mutex # 0
    \/ pc[c] = "pawait"  /\ ~PollReady(entries[c])

Abandon(c) ==
    /\ Suspended(c)
    /\ Finish(c, final[c], "Abandoned", FALSE, "none", FALSE)
    /\ IF c \in Waiting
       THEN /\ PutAt(final[c], [EntryAt(final[c]) EXCEPT
                                   !.mutex = IF @ = c THEN 0 ELSE @])
            /\ UNCHANGED << in_flight, detached >>
       ELSE Leave(c, [entries[c] EXCEPT !.mutex = IF @ = c THEN 0 ELSE @,
                                        !.orphan = entries[c].handle /\
                                            entries[c].stage # "consumed"])
    /\ UNCHANGED << parallelism, no_upscale, permits, closed, disk >>

(***************************************************************************)
(* The semaphore is a public field; Semaphore::close() makes every later   *)
(* acquire fail with AcquireError (CreateImageError::Acquire).             *)
(***************************************************************************)
CloseSemaphore ==
    /\ ~closed
    /\ closed' = TRUE
    /\ NoReturn
    /\ UNCHANGED << parallelism, no_upscale, permits, in_flight, entries, stale,
                    detached, disk, pc, image, final, res >>

TaskOutputs == {"Ok", "ImageError", "IOError", "Panicked"}

\* the steps of the calls in progress, of the tasks and of the environment
Steps ==
    \/ \E c \in Callers : Get(c)
    \/ \E c \in Callers : WaiterLock(c)
    \/ \E c \in Callers : WaiterJoin(c)
    \/ \E c \in Callers : Insert(c)
    \/ \E c \in Callers : Acquire(c)
    \/ \E c \in Callers : StoreHandle(c)
    \/ \E c \in Callers : ProducerLock(c)
    \/ \E c \in Callers : ProducerJoin(c)
    \/ \E c \in Callers : Remove(c)
    \/ \E c \in Callers, o \in TaskOutputs : TaskFinish(c, o)
    \/ \E k \in Keys, o \in TaskOutputs : StaleTaskFinish(k, o)
    \/ \E k \in Keys, o \in TaskOutputs : DetachedTaskFinish(k, o)
    \/ \E c \in Callers : Abandon(c)
    \/ CloseSemaphore

Next ==
    \/ \E c \in Callers, img \in Requests : Start(c, img)
    \/ Steps

Spec == Init /\ [][Next]_vars

\* SpecOne: Spec with every call issued for the same request, the larger
\* one (no_upscale clamps it to the other)
OneRequest == CachedImage(SrcA, Resize(2, 1, 75))

NextOne ==
    \/ \E c \in Callers : Start(c, OneRequest)
    \/ Steps

SpecOne == Init /\ [][NextOne]_vars

SpecDistinct == InitDistinct /\ [][Next]_vars

\* the steps in which a transform creates its output file (lines 360, 365)
Writes ==
    \/ \E c \in Callers : TaskWrite(c)
    \/ \E k \in Keys : StaleTaskWrite(k)
    \/ \E k \in Keys : DetachedTaskWrite(k)

NextWrite == NextOne \/ Writes

SpecWrite == Init /\ [][NextWrite]_vars

(***************************************************************************)
(* SpecLive: Spec under the scheduling the code runs on.  The runtime      *)
(* polls every task that can go on, the entry mutex and the semaphore      *)
(* serve their waiters in turn, and every transform ends.  Nothing makes a *)
(* client issue a request or go away, and nobody has to close the          *)
(* semaphore: Start, Abandon and CloseSemaphore are not fair.              *)
(***************************************************************************)
Fairness ==
    /\ \A c \in Callers :
          /\ WF_vars(Get(c))
          /\ SF_vars(WaiterLock(c))
          /\ WF_vars(WaiterJoin(c))
          /\ WF_vars(Insert(c))
          /\ SF_vars(Acquire(c))
          /\ SF_vars(StoreHandle(c))
          /\ SF_vars(ProducerLock(c))
          /\ WF_vars(ProducerJoin(c))
          /\ WF_vars(Remove(c))
          /\ WF_vars(\E o \in TaskOutputs : TaskFinish(c, o))
    /\ \A k \in Keys :
          /\ WF_vars(\E o \in TaskOutputs : StaleTaskFinish(k, o))
          /\ WF_vars(\E o \in TaskOutputs : DetachedTaskFinish(k, o))

SpecLive == Init /\ [][Next]_vars /\ Fairness

(***************************************************************************)
(* SpecClamp: the upscale policy alone.  An optimizer is constructed with  *)
(* no_upscale on or off, a request is drawn, and maybe_clamp is applied to *)
(* it as the first line of create_image does.                              *)
(***************************************************************************)
SrcMissing == << "m" >>

ClampSrcs == {SrcA, SrcB, SrcEmpty, SrcGarbage, SrcMissing}

\* the largest requested width and height: one more than SrcB has
MaxDim == SrcSize + 1

ClampRequests ==
    { CachedImage(src, Resize(w, h, 75)) :
          src \in ClampSrcs, w \in 0 .. MaxDim, h \in 0 .. MaxDim }
    \cup { CachedImage(src, Blur(MaxDim, MaxDim, 100, 50, 8)) : src \in ClampSrcs }

InitClamp ==
    /\ \E nu \in BOOLEAN : Construct(Parallelism, nu)
    /\ codec = NoCodec
    /\ pipeline = NoPipeline
    /\ policy \in { [stage |-> "new", image |-> img,
                     result |-> [ok |-> FALSE, err |-> "none"]] :
                    img \in ClampRequests }

\* line 185: self.maybe_clamp(image)
MaybeClamp ==
    /\ policy.stage = "new"
    /\ policy' = [policy EXCEPT !.stage = "done",
                                !.result = maybe_clamp(no_upscale, policy.image)]
    /\ UNCHANGED << optimizer, codec, pipeline >>

NextClamp == MaybeClamp

SpecClamp == InitClamp /\ [][NextClamp]_vars

(***************************************************************************)
(* The descriptor codec (impl CachedImage, lines 499-543).  A string is a  *)
(* sequence of one-character strings; a byte is a number in 0 .. 255.      *)
(***************************************************************************)
\* the printable ASCII characters in the order of their codes, 32 to 126
\* (code 96, the grave accent, by name)
Printable ==
    << " ", "!", "\"", "#", "$", "%", "&", "'", "(", ")", "*", "+",
       ",", "-", ".", "/", "0", "1", "2", "3", "4", "5", "6", "7",
       "8", "9", ":", ";", "<", "=", ">", "?", "@", "A", "B", "C",
       "D", "E", "F", "G", "H", "I", "J", "K", "L", "M", "N", "O",
       "P", "Q", "R", "S", "T", "U", "V", "W", "X", "Y", "Z", "[",
       "\\", "]", "^", "_", "<grave>", "a", "b", "c", "d", "e", "f", "g",
       "h", "i", "j", "k", "l", "m", "n", "o", "p", "q", "r", "s",
       "t", "u", "v", "w", "x", "y", "z", "{", "|", "}", "~" >>

Code(ch) == 31 + (CHOOSE i \in 1 .. Len(Printable) : Printable[i] = ch)

\* a byte as a character; control bytes have no character in this model
Chr(b) == IF b \in 32 .. 126 THEN Printable[b - 31] ELSE "<ctl>"

IsDigit(ch) == Code(ch) \in 48 .. 57

IsAlnum(ch) == Code(ch) \in (48 .. 57) \cup (65 .. 90) \cup (97 .. 122)

\* Display of an unsigned integer (serde_qs writes numbers with it)
RECURSIVE Decimal(_)
Decimal(n) ==
    IF n < 10 THEN << Chr(48 + n) >>
    ELSE Decimal(n \div 10) \o << Chr(48 + (n % 10)) >>

\* str::parse of an unsigned integer type with maximum `max`: the value, or
\* -1 for an Err (empty, a non-digit character, or overflow)
RECURSIVE ParseFrom(_, _, _)
ParseFrom(s, acc, max) ==
    IF s = << >> THEN acc
    ELSE IF ~IsDigit(Head(s)) THEN -1
    ELSE LET v == acc * 10 + (Code(Head(s)) - 48)
         IN  IF v > max THEN -1 ELSE ParseFrom(Tail(s), v, max)

ParseUnsigned(s, max) ==
    IF s = << >> THEN -1
    ELSE IF Head(s) = "+" /\ Len(s) > 1 THEN ParseFrom(Tail(s), 0, max)
    ELSE ParseFrom(s, 0, max)

HexDigits == << "0", "1", "2", "3", "4", "5", "6", "7",
                "8", "9", "A", "B", "C", "D", "E", "F" >>

\* the value of a hexadecimal digit of either case, -1 for any other character
HexValue(ch) ==
    IF IsDigit(ch) THEN Code(ch) - 48
    ELSE IF Code(ch) \in 65 .. 70 THEN Code(ch) - 55
    ELSE IF Code(ch) \in 97 .. 102 THEN Code(ch) - 87
    ELSE -1

(***************************************************************************)
(* serde_qs's encoding of keys and values: percent_encoding with the set   *)
(* NON_ALPHANUMERIC less ' ', '*', '-', '.', '_', then ' ' written as '+'. *)
(* Decoding: '+' is a space, %XY is the byte XY, a '%' not followed by two *)
(* hexadecimal digits stands for itself.                                   *)
(***************************************************************************)
\* the sequences of ss one after the other (halving keeps the nesting low)
RECURSIVE Flatten(_)
Flatten(ss) ==
    IF Len(ss) = 0 THEN << >>
    ELSE IF Len(ss) = 1 THEN ss[1]
    ELSE LET h == Len(ss) \div 2
         IN  Flatten(SubSeq(ss, 1, h)) \o Flatten(SubSeq(ss, h + 1, Len(ss)))

EncodeChar(ch) ==
    IF IsAlnum(ch) \/ ch \in {"*", "-", ".", "_"} THEN << ch >>
    ELSE IF ch = " " THEN << "+" >>
    ELSE << "%", HexDigits[(Code(ch) \div 16) + 1], HexDigits[(Code(ch) % 16) + 1] >>

PercentEncode(s) == Flatten([i \in 1 .. Len(s) |-> EncodeChar(s[i])])

\* s[i] is a '%' followed by two hexadecimal digits.  The digits of one
\* escape are never the '%' of another, so this does not depend on what
\* comes before i.
EscapeAt(s, i) ==
    /\ i >= 1
    /\ i + 2 <= Len(s)
    /\ s[i] = "%"
    /\ HexValue(s[i + 1]) >= 0
    /\ HexValue(s[i + 2]) >= 0

PercentDecode(s) ==
    Flatten([i \in 1 .. Len(s) |->
        IF EscapeAt(s, i - 1) \/ EscapeAt(s, i - 2) THEN << >>
        ELSE IF EscapeAt(s, i)
        THEN << Chr(HexValue(s[i + 1]) * 16 + HexValue(s[i + 2])) >>
        ELSE IF s[i] = "+" THEN << " " >>
        ELSE << s[i] >>])

\* position of the k-th `sep` in s; 0 for k = 0, Len(s) + 1 past the last
SepAt(s, sep, k) ==
    IF k = 0 THEN 0
    ELSE IF \E i \in 1 .. Len(s) :
                s[i] = sep /\ Cardinality({ j \in 1 .. i : s[j] = sep }) = k
    THEN CHOOSE i \in 1 .. Len(s) :
                s[i] = sep /\ Cardinality({ j \in 1 .. i : s[j] = sep }) = k
    ELSE Len(s) + 1

\* str::split(sep): the pieces between the separators, at least one piece
Split(s, sep) ==
    LET n == Cardinality({ i \in 1 .. Len(s) : s[i] = sep })
    IN  [k \in 1 .. n + 1 |->
            SubSeq(s, SepAt(s, sep, k - 1) + 1, SepAt(s, sep, k) - 1)]

\* the pieces joined again with the separator between them
RECURSIVE Join(_, _)
Join(pieces, sep) ==
    IF pieces = << >> THEN << >>
    ELSE IF Len(pieces) = 1 THEN pieces[1]
    ELSE pieces[1] \o << sep >> \o Join(Tail(pieces), sep)

\* the standard base64 alphabet
Base64Alphabet ==
    << "A", "B", "C", "D", "E", "F", "G", "H", "I", "J", "K", "L", "M",
       "N", "O", "P", "Q", "R", "S", "T", "U", "V", "W", "X", "Y", "Z",
       "a", "b", "c", "d", "e", "f", "g", "h", "i", "j", "k", "l", "m",
       "n", "o", "p", "q", "r", "s", "t", "u", "v", "w", "x", "y", "z",
       "0", "1", "2", "3", "4", "5", "6", "7", "8", "9", "+", "/" >>

Base64Index(ch) ==
    IF \E i \in 1 .. 64 : Base64Alphabet[i] = ch
    THEN (CHOOSE i \in 1 .. 64 : Base64Alphabet[i] = ch) - 1
    ELSE -1

\* String::as_bytes (the strings of this model are ASCII)
Bytes(s) == [i \in 1 .. Len(s) |-> Code(s[i])]

(***************************************************************************)
(* general_purpose::STANDARD.encode: three bytes make four characters, the *)
(* last group is padded with '='.                                          *)
(***************************************************************************)
\* the characters of the g-th group of up to three bytes
EncodeGroup(b, g) ==
    LET k  == 3 * g - 2
        b1 == b[k]
        b2 == IF k + 1 <= Len(b) THEN b[k + 1] ELSE 0
        b3 == IF k + 2 <= Len(b) THEN b[k + 2] ELSE 0
    IN  << Base64Alphabet[(b1 \div 4) + 1],
           Base64Alphabet[((b1 % 4) * 16 + (b2 \div 16)) + 1],
           IF k + 1 <= Len(b)
           THEN Base64Alphabet[((b2 % 16) * 4 + (b3 \div 64)) + 1] ELSE "=",
           IF k + 2 <= Len(b) THEN Base64Alphabet[(b3 % 64) + 1] ELSE "=" >>

Base64Encode(b) ==
    Flatten([g \in 1 .. ((Len(b) + 2) \div 3) |-> EncodeGroup(b, g)])

(***************************************************************************)
(* general_purpose::STANDARD.decode: Err unless the length is a multiple   *)
(* of four, every character but a final "=" or "==" is of the alphabet,    *)
(* and the bits the padding leaves over are zero.                          *)
(***************************************************************************)
\* the bytes of the g-th group of up to four characters (x their indexes)
DecodeGroup(x, g) ==
    LET k  == 4 * g - 3
        x1 == x[k]
        x2 == x[k + 1]
        x3 == IF k + 2 <= Len(x) THEN x[k + 2] ELSE 0
        x4 == IF k + 3 <= Len(x) THEN x[k + 3] ELSE 0
        b3 == << x1 * 4 + (x2 \div 16), (x2 % 16) * 16 + (x3 \div 4),
                 (x3 % 4) * 64 + x4 >>
    IN  IF k + 3 <= Len(x) THEN b3
        ELSE IF k + 2 <= Len(x) THEN SubSeq(b3, 1, 2)
        ELSE SubSeq(b3, 1, 1)

DecodeQuads(x) ==
    Flatten([g \in 1 .. ((Len(x) + 3) \div 4) |-> DecodeGroup(x, g)])

DecodeErr == [ok |-> FALSE, bytes |-> << >>]

Base64Decode(s) ==
    LET n    == Len(s)
        pad  == IF n >= 2 /\ s[n] = "=" /\ s[n - 1] = "=" THEN 2
                ELSE IF n >= 1 /\ s[n] = "=" THEN 1 ELSE 0
        body == SubSeq(s, 1, n - pad)
        x    == [i \in 1 .. Len(body) |-> Base64Index(body[i])]
    IN  IF n % 4 # 0 THEN DecodeErr
        ELSE IF \E i \in 1 .. Len(x) : x[i] < 0 THEN DecodeErr
        ELSE IF pad = 2 /\ x[Len(x)] % 16 # 0 THEN DecodeErr
        ELSE IF pad = 1 /\ x[Len(x)] % 4 # 0 THEN DecodeErr
        ELSE [ok |-> TRUE, bytes |-> DecodeQuads(x)]

(***************************************************************************)
(* serde_qs::to_string of a CachedImage: the fields in declaration order   *)
(* under their serde names, nested keys in brackets, values encoded.       *)
(***************************************************************************)
KeySrc == << "s", "r", "c" >>

\* option[<variant>][<field>]
KeyOption(variant, field) ==
    << "o", "p", "t", "i", "o", "n", "[" >> \o variant \o << "]", "[" >> \o field \o << "]" >>

Pair(key, value) == key \o << "=" >> \o value

QsEncode(d) ==
    LET o == d.option
        n(field, v) == << "&" >> \o Pair(KeyOption(<< o.tag >>, field), Decimal(v))
    IN  Pair(KeySrc, PercentEncode(d.src))
        \o (IF o.tag = "r"
            THEN n(<< "w" >>, o.width) \o n(<< "h" >>, o.height)
                 \o n(<< "q" >>, o.quality)
            ELSE n(<< "w" >>, o.width) \o n(<< "h" >>, o.height)
                 \o n(<< "s", "w" >>, o.svg_width)
                 \o n(<< "s", "h" >>, o.svg_height)
                 \o n(<< "s" >>, o.sigma))

(***************************************************************************)
(* serde_qs::from_str::<CachedImage>: the pairs between '&', each split at *)
(* its first '=' and decoded; Err when src or option is missing, when the  *)
(* keys under option name no variant or both, when a field of the variant  *)
(* is missing or is not a number of its type.  Keys that name no field are *)
(* ignored.  (The encoder writes no key twice; of twice the same key the   *)
(* first is taken here.)                                                   *)
(***************************************************************************)
\* position of the first `ch` in s, 0 if there is none
FirstIndex(s, ch) ==
    IF \E i \in 1 .. Len(s) : s[i] = ch
    THEN CHOOSE i \in 1 .. Len(s) : s[i] = ch /\ \A j \in 1 .. i - 1 : s[j] # ch
    ELSE 0

QsPairs(qs) ==
    LET raw == Split(qs, "&")
        kv(t) == LET e == FirstIndex(t, "=")
                 IN  IF e = 0 THEN [key |-> PercentDecode(t), value |-> << >>]
                     ELSE [key   |-> PercentDecode(SubSeq(t, 1, e - 1)),
                           value |-> PercentDecode(SubSeq(t, e + 1, Len(t)))]
    IN  [i \in 1 .. Len(raw) |-> kv(raw[i])]

HasKey(pairs, key) == \E i \in 1 .. Len(pairs) : pairs[i].key = key

ValueOf(pairs, key) ==
    pairs[CHOOSE i \in 1 .. Len(pairs) :
              pairs[i].key = key /\ \A j \in 1 .. i - 1 : pairs[j].key # key].value

\* a field of the variant as a number, -1 when missing or not a number
FieldOf(pairs, variant, field, max) ==
    IF HasKey(pairs, KeyOption(variant, field))
    THEN ParseUnsigned(ValueOf(pairs, KeyOption(variant, field)), max)
    ELSE -1

IsPrefix(a, b) == Len(a) <= Len(b) /\ SubSeq(b, 1, Len(a)) = a

QsErr == [ok |-> FALSE, image |-> NoImage]

\* u32 fields are parsed up to 2147483647, the largest integer TLC
\* represents, and u8 fields up to 255
QsDecode(qs) ==
    LET pairs  == QsPairs(qs)
        under(variant) ==
            \E i \in 1 .. Len(pairs) :
                IsPrefix(<< "o", "p", "t", "i", "o", "n", "[" >> \o variant \o << "]" >>, pairs[i].key)
        u32(variant, field) == FieldOf(pairs, variant, field, 2147483647)
        u8(variant, field)  == FieldOf(pairs, variant, field, 255)
        r == << "r" >>
        b == << "b" >>
    IN  IF ~HasKey(pairs, KeySrc) THEN QsErr
        ELSE IF under(r) = under(b) THEN QsErr
        ELSE IF under(r)
        THEN IF u32(r, << "w" >>) < 0 \/ u32(r, << "h" >>) < 0 \/ u8(r, << "q" >>) < 0
             THEN QsErr
             ELSE [ok |-> TRUE,
                   image |-> CachedImage(ValueOf(pairs, KeySrc),
                                 Resize(u32(r, << "w" >>), u32(r, << "h" >>),
                                        u8(r, << "q" >>)))]
        ELSE IF u32(b, << "w" >>) < 0 \/ u32(b, << "h" >>) < 0
                \/ u32(b, << "s", "w" >>) < 0 \/ u32(b, << "s", "h" >>) < 0
                \/ u8(b, << "s" >>) < 0
             THEN QsErr
             ELSE [ok |-> TRUE,
                   image |-> CachedImage(ValueOf(pairs, KeySrc),
                                 Blur(u32(b, << "w" >>), u32(b, << "h" >>),
                                      u32(b, << "s", "w" >>), u32(b, << "s", "h" >>),
                                      u8(b, << "s" >>)))]

(***************************************************************************)
(* path_from_segments (lines 563-572): the parts, trimmed of '/', the      *)
(* empty ones left out, pushed onto a PathBuf one after the other.         *)
(***************************************************************************)
RECURSIVE TrimStart(_)
TrimStart(s) ==
    IF s # << >> /\ Head(s) = "/" THEN TrimStart(Tail(s)) ELSE s

RECURSIVE TrimEnd(_)
TrimEnd(s) ==
    IF s # << >> /\ s[Len(s)] = "/" THEN TrimEnd(SubSeq(s, 1, Len(s) - 1)) ELSE s

\* str::trim_matches('/')
TrimSlashes(s) == TrimEnd(TrimStart(s))

path_from_segments(parts) ==
    LET trimmed == [i \in 1 .. Len(parts) |-> TrimSlashes(parts[i])]
    IN  Join(SelectSeq(trimmed, LAMBDA t : t # << >>), "/")

(***************************************************************************)
(* PathBuf::set_extension: the file name is the last component; what       *)
(* follows its last '.' (not counting a '.' it starts with) is replaced,   *)
(* or the extension is added when it has none.  Nothing happens when the   *)
(* path has no file name.                                                  *)
(***************************************************************************)
\* position of the last `ch` in s, 0 if there is none
LastIndex(s, ch) ==
    IF \E i \in 1 .. Len(s) : s[i] = ch
    THEN CHOOSE i \in 1 .. Len(s) : s[i] = ch /\ \A j \in i + 1 .. Len(s) : s[j] # ch
    ELSE 0

set_extension(path, ext) ==
    LET start == LastIndex(path, "/")
        name  == SubSeq(path, start + 1, Len(path))
        dot   == LastIndex(name, ".")
        stem  == IF dot <= 1 THEN name ELSE SubSeq(name, 1, dot - 1)
    IN  IF name = << >> \/ name = << ".", "." >> THEN path
        ELSE SubSeq(path, 1, start) \o stem \o << "." >> \o ext

\* CachedImage::get_url_encoded
get_url_encoded(d, handler_path) == handler_path \o << "?" >> \o QsEncode(d)

\* CachedImage::get_file_path
get_file_path(d) ==
    LET encoded == Base64Encode(Bytes(QsEncode(d)))
        path    == path_from_segments(<< << "c", "a", "c", "h", "e" >>, << "i", "m", "a", "g", "e" >>, encoded, d.src >>)
    IN  IF d.option.tag = "r" THEN set_extension(path, << "w", "e", "b", "p" >>)
        ELSE set_extension(path, << "s", "v", "g" >>)

(***************************************************************************)
(* CachedImage::from_file_path: the parts of the path in order.  The two   *)
(* `.ok()?` leave the function with None at the first part that is not     *)
(* base64 or not UTF-8; a part that decodes but does not parse as a        *)
(* descriptor is skipped.  (Bytes above 127 are taken as not UTF-8: the    *)
(* strings of this model are ASCII.)                                       *)
(***************************************************************************)
None == [ok |-> FALSE, image |-> NoImage]

Some(d) == [ok |-> TRUE, image |-> d]

RECURSIVE ScanParts(_)
ScanParts(parts) ==
    IF parts = << >> THEN None
    ELSE LET decoded == Base64Decode(Head(parts))
         IN  IF ~decoded.ok THEN None
             ELSE IF \E i \in 1 .. Len(decoded.bytes) : decoded.bytes[i] > 127
             THEN None
             ELSE LET text == [i \in 1 .. Len(decoded.bytes) |-> Chr(decoded.bytes[i])]
                      ci   == QsDecode(text)
                  IN  IF ci.ok THEN Some(ci.image) ELSE ScanParts(Tail(parts))

from_file_path(path) == ScanParts(Split(path, "/"))

\* lines 530-532 on one part: Some(ci) when the part is base64 of UTF-8
\* text that parses as a descriptor, None otherwise
ParsePart(part) ==
    LET decoded == Base64Decode(part)
    IN  IF ~decoded.ok THEN None
        ELSE IF \E i \in 1 .. Len(decoded.bytes) : decoded.bytes[i] > 127
        THEN None
        ELSE LET ci == QsDecode([i \in 1 .. Len(decoded.bytes) |->
                                    Chr(decoded.bytes[i])])
             IN  IF ci.ok THEN Some(ci.image) ELSE None

\* url.split('?').nth(0): the text before the first '?'
QueryPartFirst(url) == Split(url, "?")[1]

\* url.split('?').nth(1).unwrap_or(url), line 541
QueryPart(url) ==
    LET pieces == Split(url, "?")
    IN  IF Len(pieces) >= 2 THEN pieces[2] ELSE url

\* CachedImage::from_url_encoded; Ok(d) as Some(d), Err(_) as None
from_url_encoded(url) == QsDecode(QueryPart(url))

(***************************************************************************)
(* SpecCodec: a descriptor d and a handler path p are drawn, and the codec *)
(* functions are applied: d to a URL and back, d to a file path and back.  *)
(***************************************************************************)
Srcs == { << "i", "m", "a", "g", "e", "s", "/", "t", "e", "s", "t", ".", "p", "n", "g" >>, << "a", ".", "p" >>, 
          << "m", "y", " ", "p", "i", "c", "+", "1", ".", "j", "p", "e", "g" >> }

Options ==
    { Resize(100, 80, 75), Resize(0, 1, 255),
      Blur(10, 10, 100, 100, 12), Blur(10, 10, 100, 50, 8) }

Descriptors == { CachedImage(src, o) : src \in Srcs, o \in Options }

\* api_handler_path: the route the handler is mounted at
HandlerPaths == { << "/", "_", "_", "c", "a", "c", "h", "e", "/", "i", "m", "a", "g", "e" >>, << >> }

InitCodec ==
    /\ Construct(Parallelism, TRUE)
    /\ policy = NoPolicy
    /\ pipeline = NoPipeline
    /\ codec \in { [stage |-> "new", d |-> d, p |-> p, text |-> << >>,
                    back |-> None] : d \in Descriptors, p \in HandlerPaths }

GetUrlEncoded ==
    /\ codec.stage = "new"
    /\ codec' = [codec EXCEPT !.stage = "url",
                              !.text = get_url_encoded(codec.d, codec.p)]
    /\ UNCHANGED << optimizer, policy, pipeline >>

FromUrlEncoded ==
    /\ codec.stage = "url"
    /\ codec' = [codec EXCEPT !.stage = "fromUrl",
                              !.back = from_url_encoded(codec.text)]
    /\ UNCHANGED << optimizer, policy, pipeline >>

GetFilePath ==
    /\ codec.stage = "new"
    /\ codec' = [codec EXCEPT !.stage = "path",
                              !.text = get_file_path(codec.d)]
    /\ UNCHANGED << optimizer, policy, pipeline >>

FromFilePath ==
    /\ codec.stage = "path"
    /\ codec' = [codec EXCEPT !.stage = "fromPath",
                              !.back = from_file_path(codec.text)]
    /\ UNCHANGED << optimizer, policy, pipeline >>

NextCodec ==
    \/ GetUrlEncoded
    \/ FromUrlEncoded
    \/ GetFilePath
    \/ FromFilePath

SpecCodec == InitCodec /\ [][NextCodec]_vars

(***************************************************************************)
(* SpecBlur: the blur placeholders.  An optimizer is constructed with a    *)
(* blur_ttl_seconds; the clock advances; the HTTP handler serves blur      *)
(* requests one at a time (no other request in progress), which writes the *)
(* .svg file and fills blur_cache; get_blur reads blur_cache; the process  *)
(* restarts on the same disk; preload_disk_cache is run.                   *)
(***************************************************************************)
\* the TTL of the optimizers constructed with one, in seconds
TtlSeconds == 2

\* the clock stops here
MaxTime == 4

Ttls == { NoTtl, SomeTtl(0), SomeTtl(TtlSeconds) }

\* root_file_path
RootFilePath == << ".", "/", "p", "u", "b" >>

\* the state of create_image's calls, which the placeholder operations
\* leave alone
calls == << parallelism, no_upscale, permits, closed, in_flight, entries,
            stale, detached, pc, image, final, res, okTrue, unwound, lastRet >>

InitBlur ==
    /\ \E ttl \in Ttls : ConstructTtl(Parallelism, FALSE, ttl)
    /\ codec = NoCodec
    /\ policy = NoPolicy
    /\ pipeline = NoPipeline

BlurRet(op, d, result, hit, age, svg) ==
    [op |-> op, key |-> d, result |-> result, hit |-> hit, age |-> age,
     svg |-> svg]

\* Utc::now() moves on by a second
Tick ==
    /\ now < MaxTime
    /\ now' = now + 1
    /\ lastBlur' = NoBlurRet
    /\ UNCHANGED << calls, disk, blur_ttl_seconds, blur_cache, codec, policy,
                    pipeline >>

(***************************************************************************)
(* check_cache_image (routes.rs:65-90) for a blur descriptor, with no      *)
(* other call in progress: create_image runs from its first line to its    *)
(* last (the entry it inserts is removed and the permit it takes is back   *)
(* when it returns), `?` leaves the handler on an error, and               *)
(* add_blur_to_cache (routes.rs:93-116) reads the file into blur_cache     *)
(* unless the key is there already.                                        *)
(***************************************************************************)
CacheHandler(d, o) ==
    /\ InProgress = {}
    /\ ~closed
    /\ IF file_exists(d) THEN o = "none" ELSE o \in TransformOutcomes(d)
    /\ disk' = IF o = "Ok" THEN [disk EXCEPT ![d] = Encoded(d)] ELSE disk
    /\ blur_cache' = IF o \in {"none", "Ok"} /\ blur_cache[d] = NoBlur
                     THEN [blur_cache EXCEPT ![d] = BlurEntry(disk'[d], now)]
                     ELSE blur_cache
    /\ lastBlur' = BlurRet("handler", d,
                           IF o = "none" THEN "OkFalse" ELSE ResultOf(o),
                           FALSE, 0, NoFile)
    /\ UNCHANGED << calls, blur_ttl_seconds, now, codec, policy,
                    pipeline >>

(***************************************************************************)
(* get_blur (lines 261-275).  `entry` is a Ref into blur_cache: it holds   *)
(* the read lock of the key's shard until it is dropped at the end of the  *)
(* function.  blur_cache.remove(image) at line 270 asks for the write lock *)
(* of that shard while `entry` is alive, so it never gets it: the call     *)
(* blocks inside remove for good ("Blocked"), the entry stays in the map,  *)
(* and line 271 is not reached.                                            *)
(***************************************************************************)
\* lines 266-269: a TTL is set and the entry is older than it
Expired(entry) ==
    /\ blur_ttl_seconds.some
    /\ now - entry.created_at > blur_ttl_seconds.v

\* a get_blur that builds the placeholder file when it misses
GetBlurMissBuilds(d) ==
    /\ lastBlur' = BlurRet("get_blur", d, "None", FALSE, 0, NoFile)
    /\ disk' = [disk EXCEPT ![d] = Encoded(d)]
    /\ UNCHANGED blur_cache

\* a get_blur that sweeps the expired entries when it misses
GetBlurMissSweeps(d) ==
    /\ lastBlur' = BlurRet("get_blur", d, "None", FALSE, 0, NoFile)
    /\ blur_cache' = [k \in BlurKeys |->
                         IF blur_cache[k] # NoBlur /\ Expired(blur_cache[k])
                         THEN NoBlur ELSE blur_cache[k]]
    /\ UNCHANGED disk

\* line 265: self.blur_cache.get(image)? on a key that is not there
GetBlurMiss(d) ==
    /\ lastBlur' = BlurRet("get_blur", d, "None", FALSE, 0, NoFile)
    /\ UNCHANGED << disk, blur_cache >>

GetBlur(d) ==
    /\ IF blur_cache[d] = NoBlur
       THEN GetBlurMiss(d)
       ELSE /\ lastBlur' =
                  IF Expired(blur_cache[d])
                  THEN BlurRet("get_blur", d, "Blocked", TRUE,
                               now - blur_cache[d].created_at, NoFile)
                  ELSE BlurRet("get_blur", d, "Some", TRUE,
                               now - blur_cache[d].created_at,
                               blur_cache[d].svg_data)
            /\ UNCHANGED << disk, blur_cache >>
    /\ UNCHANGED << calls, blur_ttl_seconds, now, codec, policy,
                    pipeline >>

\* the process ends and a new one calls ImageOptimizer::new with the same
\* arguments on the same disk
Restart ==
    /\ InProgress = {}
    /\ blur_cache' = [k \in BlurKeys |-> NoBlur]
    /\ lastBlur' = BlurRet("new", NoImage, "none", FALSE, 0, NoFile)
    /\ UNCHANGED << calls, disk, blur_ttl_seconds, now, codec, policy,
                    pipeline >>

(***************************************************************************)
(* preload_disk_cache (lines 127-160).  The files of the cache are at      *)
(* root_file_path/get_file_path(k).  read_dir lists what is directly in    *)
(* root_file_path/cache/image: for each file of the cache the third part   *)
(* of its path, a directory unless the path has three parts.  An entry     *)
(* whose extension is svg goes through from_file_path, then through        *)
(* read_to_string (which fails on a directory), then into blur_cache.      *)
(***************************************************************************)
\* the files the cache can hold: descriptor and the parts of its path
CacheFiles ==
    { [of |-> k, parts |-> Split(get_file_path(k), "/")] : k \in Keys \cup BlurKeys }

\* Path::extension of a file name: what follows its last '.', none for a
\* name without '.' or with its only '.' in front
Extension(name) ==
    IF LastIndex(name, ".") <= 1 THEN << >>
    ELSE SubSeq(name, LastIndex(name, ".") + 1, Len(name))

\* the entries of read_dir(cache_dir): name, whether it is a file, and the
\* content read_to_string finds in it
DirEntries ==
    { [name |-> f.parts[3], file |-> Len(f.parts) = 3, content |-> disk[f.of]] :
        f \in { x \in CacheFiles : file_exists(x.of) } }

\* entry.path() as the string from_file_path is given
EntryPath(e) ==
    path_from_segments(<< RootFilePath, << "c", "a", "c", "h", "e" >>,
                          << "i", "m", "a", "g", "e" >>, e.name >>)

\* the entries that get as far as blur_cache.insert, with their keys
Preloaded ==
    { [key |-> from_file_path(EntryPath(e)).image, content |-> e.content] :
        e \in { x \in DirEntries :
                  /\ Extension(x.name) = << "s", "v", "g" >>
                  /\ from_file_path(EntryPath(x)).ok
                  /\ x.file } }

Preload ==
    /\ blur_cache' =
          [k \in BlurKeys |->
              IF \E l \in Preloaded : l.key = k
              THEN BlurEntry((CHOOSE l \in Preloaded : l.key = k).content, now)
              ELSE blur_cache[k]]
    /\ lastBlur' = BlurRet("preload", NoImage, "Ok", FALSE, 0, NoFile)
    /\ UNCHANGED << calls, disk, blur_ttl_seconds, now, codec, policy,
                    pipeline >>

NextBlur ==
    \/ Tick
    \/ \E d \in BlurKeys, o \in TaskOutputs \cup {"none"} : CacheHandler(d, o)
    \/ \E d \in BlurKeys : GetBlur(d)
    \/ Restart
    \/ Preload

SpecBlur == InitBlur /\ [][NextBlur]_vars

(***************************************************************************)
(* SpecOrient: the orientation correction.  An image is its width, its     *)
(* height and its pixels px[<<x, y>>], x in 1 .. w from the left and y in  *)
(* 1 .. h from the top.  The operations of image::imageops that util.rs    *)
(* imports, as the image crate defines them on pixel coordinates.          *)
(***************************************************************************)
\* the largest width and height of a source image
ImgDim == 2

Img(w, h, px) == [w |-> w, h |-> h, px |-> px]

\* out(w-1-x, y) = in(x, y)
flip_horizontal(img) ==
    Img(img.w, img.h,
        [q \in (1 .. img.w) \X (1 .. img.h) |-> img.px[<< img.w + 1 - q[1], q[2] >>]])

\* out(x, h-1-y) = in(x, y)
flip_vertical(img) ==
    Img(img.w, img.h,
        [q \in (1 .. img.w) \X (1 .. img.h) |-> img.px[<< q[1], img.h + 1 - q[2] >>]])

\* clockwise, out(h-1-y, x) = in(x, y): the result is h wide and w high
rotate90(img) ==
    Img(img.h, img.w,
        [q \in (1 .. img.h) \X (1 .. img.w) |-> img.px[<< q[2], img.h + 1 - q[1] >>]])

\* out(w-1-x, h-1-y) = in(x, y)
rotate180(img) ==
    Img(img.w, img.h,
        [q \in (1 .. img.w) \X (1 .. img.h) |->
            img.px[<< img.w + 1 - q[1], img.h + 1 - q[2] >>]])

\* clockwise, out(y, w-1-x) = in(x, y): the result is h wide and w high
rotate270(img) ==
    Img(img.h, img.w,
        [q \in (1 .. img.h) \X (1 .. img.w) |-> img.px[<< img.w + 1 - q[2], q[1] >>]])

\* util.rs, fix_orientation_standard
fix_orientation_standard(img, orientation) ==
    CASE orientation = 2 -> flip_horizontal(img)
      [] orientation = 3 -> rotate180(img)
      [] orientation = 4 -> flip_vertical(img)
      [] orientation = 5 -> rotate90(flip_horizontal(img))
      [] orientation = 6 -> rotate90(img)
      [] orientation = 7 -> rotate270(flip_horizontal(img))
      [] orientation = 8 -> rotate270(img)
      [] OTHER -> img

\* util.rs, brand_invert_orientation: the swap for Canon is commented out
brand_invert_orientation(brand, code) == code

\* util.rs, auto_orient_image: the file's orientation code, when it has
\* one, goes through brand_invert_orientation and the table.  optimizer.rs
\* does not call it.
util_auto_orient_image(original, exif, make) ==
    IF exif.some
    THEN fix_orientation_standard(original, brand_invert_orientation(make, exif.v))
    ELSE original

\* optimizer.rs, auto_orient_image: the stub the pipeline calls.  It takes
\* the image and the path and returns the image.
auto_orient_image(img, exif) == img

(***************************************************************************)
(* The source files.  A camera stores the picture `upright` under an EXIF  *)
(* orientation code, which says where row 0 and column 0 of the stored     *)
(* pixels are in the picture: 1 top/left, 2 top/right, 3 bottom/right,     *)
(* 4 bottom/left, 5 left/top, 6 right/top, 7 right/bottom, 8 left/bottom.  *)
(* StoredAs gives the stored pixel at column x, row y.  A file may have no *)
(* orientation tag, and a tag may hold a code outside 1 .. 8, which says   *)
(* nothing: the pixels are then stored as they are.                        *)
(***************************************************************************)
\* Option<u16>, the orientation code of a file
NoOrientation == [some |-> FALSE, v |-> 0]

Orientation(c) == [some |-> TRUE, v |-> c]

\* the codes a tag holds in this model: 1 .. 8 and the two next to them
Codes == 0 .. 9

StoredAs(c, up) ==
    LET W == up.w
        H == up.h
    IN  CASE c = 2 -> Img(W, H, [q \in (1 .. W) \X (1 .. H) |-> up.px[<< W + 1 - q[1], q[2] >>]])
          [] c = 3 -> Img(W, H, [q \in (1 .. W) \X (1 .. H) |->
                                    up.px[<< W + 1 - q[1], H + 1 - q[2] >>]])
          [] c = 4 -> Img(W, H, [q \in (1 .. W) \X (1 .. H) |-> up.px[<< q[1], H + 1 - q[2] >>]])
          [] c = 5 -> Img(H, W, [q \in (1 .. H) \X (1 .. W) |-> up.px[<< q[2], q[1] >>]])
          [] c = 6 -> Img(H, W, [q \in (1 .. H) \X (1 .. W) |-> up.px[<< W + 1 - q[2], q[1] >>]])
          [] c = 7 -> Img(H, W, [q \in (1 .. H) \X (1 .. W) |->
                                    up.px[<< W + 1 - q[2], H + 1 - q[1] >>]])
          [] c = 8 -> Img(H, W, [q \in (1 .. H) \X (1 .. W) |-> up.px[<< q[2], H + 1 - q[1] >>]])
          [] OTHER -> up

\* the pictures: every size up to ImgDim, no two pixels alike
Pictures ==
    { Img(w, h, [q \in (1 .. w) \X (1 .. h) |-> (q[2] - 1) * w + q[1]]) :
        w \in 1 .. ImgDim, h \in 1 .. ImgDim }

InitOrient ==
    /\ Construct(Parallelism, TRUE)
    /\ codec = NoCodec
    /\ policy = NoPolicy
    /\ pipeline \in { [stage |-> "new", upright |-> up, exif |-> e, tag |-> "none",
                       stored |-> up, out |-> up] :
                      up \in Pictures,
                      e \in {NoOrientation} \cup { Orientation(c) : c \in Codes } }

\* the camera writes the source file
Capture ==
    /\ pipeline.stage = "new"
    /\ pipeline' = [pipeline EXCEPT
                       !.stage = "file",
                       !.stored = IF pipeline.exif.some
                                  THEN StoredAs(pipeline.exif.v, pipeline.upright)
                                  ELSE pipeline.upright]
    /\ UNCHANGED << optimizer, codec, policy >>

\* util.rs line 111: fix_orientation_standard(original, code.into()) on the
\* decoded pixels of a file that has an orientation code
FixOrientation ==
    /\ pipeline.stage = "file"
    /\ pipeline.exif.some
    /\ pipeline' = [pipeline EXCEPT
                       !.stage = "fixed",
                       !.out = fix_orientation_standard(pipeline.stored,
                                                        pipeline.exif.v)]
    /\ UNCHANGED << optimizer, codec, policy >>

\* optimizer.rs lines 348-349 (Resize, tag "r") and 390-391 (Blur, tag "b"):
\* image::open decodes the pixels as they are stored, auto_orient_image is
\* called on them, and its result is what resize is called on
Orient(tag) ==
    /\ pipeline.stage = "file"
    /\ pipeline' = [pipeline EXCEPT
                       !.stage = "resize",
                       !.tag = tag,
                       !.out = auto_orient_image(pipeline.stored, pipeline.exif)]
    /\ UNCHANGED << optimizer, codec, policy >>

NextOrient ==
    \/ Capture
    \/ FixOrientation
    \/ \E tag \in {"r", "b"} : Orient(tag)

SpecOrient == InitOrient /\ [][NextOrient]_vars

(***************************************************************************)
(* Properties of create_image.                                             *)
(***************************************************************************)

\* C1: calls of create_image for the same descriptor that are in progress
\* at the same time, all issued with no output file on disk, run the
\* transform once between them: at most one of them has spawned it.
C1_OneTransformPerBurst ==
    \A k \in Keys : Cardinality({ c \in Spawned : final[c] = k }) <= 1

\* C2: in every reachable state at most one transform is running for each
\* descriptor.
C2_OneRunningPerDescriptor ==
    \A k \in Keys : RunningFor(k) <= 1

\* C3: a call that awaited the join handle of an in-flight transform (the
\* producer itself, or a waiter attached to a live producer's entry)
\* returns that transform's outcome: Ok(true) on Ok, its error otherwise.
C3_ReturnsProducerOutcome ==
    (lastRet.polled /\ ~lastRet.orphan)
        => lastRet.result = ResultOf(lastRet.output)

\* C4: in every reachable state the number of transforms running at the
\* same time is at most the parallelism the optimizer was constructed with.
C4_RunningWithinParallelism ==
    Running <= parallelism

\* C4 witness: two transforms for two distinct descriptors are running,
\* which is the parallelism, and a third call waits for a permit.
C4_LimitReached ==
    /\ Running = parallelism
    /\ \E k1, k2 \in Keys : k1 # k2 /\ RunningFor(k1) > 0 /\ RunningFor(k2) > 0
    /\ \E c \in Callers : pc[c] = "acquire" /\ ~closed /\ ~PermitAvailable

\* C5: once a call for a descriptor has returned Ok(true), a call for it
\* that starts afterwards returns Ok(false) from the disk check: it does not
\* go on to the map, spawns no transform, and leaves the file as it is.
C5_SecondCallCached ==
    [][ /\ \A c \in Callers :
              (pc[c] = "idle" /\ pc'[c] = "get") => ~okTrue[final'[c]]
        /\ (lastRet'.from = "idle" /\ okTrue[lastRet'.key])
              => /\ lastRet'.result = "OkFalse"
                 /\ UNCHANGED << disk, in_flight, entries, stale, detached,
                                 permits >> ]_vars

\* C5 witness: a call has returned Ok(false) from the disk check for a
\* descriptor an earlier call returned Ok(true) for, and the file is the
\* encoding of that descriptor.
C5_SecondCallReturned ==
    /\ lastRet.result = "OkFalse"
    /\ lastRet.from = "idle"
    /\ okTrue[lastRet.key]
    /\ disk[lastRet.key] = Encoded(lastRet.key)

\* C6: whenever no call is in progress and every call so far has returned
\* (none panicked, none was dropped), in_flight has no entry.
C6_EmptyWhenQuiescent ==
    (InProgress = {} /\ ~unwound) => \A k \in Keys : in_flight[k] = 0

\* C7: when a call returns an error of the transform (an image error, an
\* I/O error, or the join error of a panicked worker), in_flight holds no
\* entry for its descriptor.
C7_NoEntryAfterError ==
    lastRet.result \in {"ErrImage", "ErrIO", "ErrJoin"}
        => in_flight[lastRet.key] = 0

\* C8: a caller that awaits the join handle in an entry whose producer was
\* dropped returns the outcome of that producer's transform.
C8_WaitersSurviveAbandon ==
    (lastRet.polled /\ lastRet.orphan)
        => lastRet.result = ResultOf(lastRet.output)

\* C15: when a call returns Ok(true) or Ok(false), the file of the
\* descriptor it was issued for (the one the handler serves) is on disk.
C15_ServedFileExists ==
    lastRet.result \in {"OkTrue", "OkFalse"} => file_exists(lastRet.image)

\* C18: a caller that has found an entry under its descriptor (it holds the
\* Ref of line 205) never goes on to insert an entry of its own.
C18_AttachedCallerWaits ==
    [][\A c \in Callers : pc[c] = "wlock" => pc'[c] # "insert"]_vars

\* C19: every call of create_image that is in progress ends.
C19_EveryCallReturns ==
    \A c \in Callers : (pc[c] # "idle") ~> (pc[c] = "idle")

\* C20: no caller awaits a join handle whose output has been taken: not a
\* waiter at line 211, not a producer at line 247.
C20_HandleAwaitedOnce ==
    \A c \in Callers :
        /\ pc[c] = "wawait" => EntryAt(final[c]).stage # "consumed"
        /\ pc[c] = "pawait" => entries[c].stage # "consumed"

\* C21: whenever a call returns Ok(false) from the disk check of line 200,
\* the file of its descriptor holds the complete output of the transform,
\* also while a producer is writing that file.
C21_NoPartialOutput ==
    (lastRet.result = "OkFalse" /\ lastRet.from = "idle")
        => disk[lastRet.key] = Encoded(lastRet.key)

\* C22: the permit taken for a transform is held as long as the transform
\* runs and is given back when it ends, however it ends: the permits that
\* are out are those of the running transforms, so that with no transform
\* running every permit is available.
C22_PermitHeldWhileRunning ==
    permits + Running = parallelism

\* C22 witness: a call has returned the join error of a worker that
\* panicked, no transform is running and every permit is back.
C22_PermitBackAfterPanic ==
    /\ lastRet.result = "ErrJoin"
    /\ lastRet.polled
    /\ Running = 0
    /\ permits = parallelism

\* C23: a call whose effective descriptor has its output file on disk at
\* the disk check does not go on to the map: it returns Ok(false), and the
\* step leaves in_flight and its entries, the permits, blur_cache and the
\* disk as they are.
C23_ExistingFileFrame ==
    [][ /\ \A c \in Callers :
              (pc[c] = "idle" /\ pc'[c] = "get") => disk[final'[c]] = NoFile
        /\ (lastRet'.from = "idle" /\ disk[lastRet'.key] # NoFile)
              => /\ lastRet'.result = "OkFalse"
                 /\ UNCHANGED << disk, in_flight, entries, stale, detached,
                                 permits, closed, blur_cache >> ]_vars

\* C23 witness: a call has returned Ok(false) from the disk check for a
\* request that was clamped, while the producer of the file is still in
\* progress with its entry in the map.
C23_ReturnedBesideProducer ==
    /\ lastRet.result = "OkFalse"
    /\ lastRet.from = "idle"
    /\ lastRet.image # lastRet.key
    /\ disk[lastRet.key] # NoFile
    /\ in_flight[lastRet.key] # 0
    /\ \E c \in InProgress : final[c] = lastRet.key

\* C25: no call is suspended at an await while it holds a Ref into
\* in_flight: a caller that holds the Ref of line 205 is never at an await
\* that is not ready.
C25_NoRefAcrossAwait ==
    \A c \in Waiting : ~Suspended(c)

\* C30: two requests on the same source that are clamped to the same
\* effective descriptor, in progress at the same time, run one transform
\* between them: they have not both spawned one.
C30_ClampedShareTransform ==
    \A c1, c2 \in Spawned :
        (image[c1] # image[c2] /\ final[c1] = final[c2]) => c1 = c2

(***************************************************************************)
(* Properties of the blur placeholders.                                    *)
(***************************************************************************)

\* C11: with a TTL of n > 0 seconds, a get_blur that finds an entry returns
\* its SVG when the entry's age is at most n; when the age is more than n
\* it returns None and the entry is gone from blur_cache.
C11_TtlExpiry ==
    (/\ lastBlur.op = "get_blur"
     /\ lastBlur.hit
     /\ blur_ttl_seconds.some
     /\ blur_ttl_seconds.v > 0)
        => IF lastBlur.age <= blur_ttl_seconds.v
           THEN /\ lastBlur.result = "Some"
                /\ lastBlur.svg = Encoded(lastBlur.key)
           ELSE /\ lastBlur.result = "None"
                /\ blur_cache[lastBlur.key] = NoBlur

\* C12: with blur_ttl_seconds None or Some(0), a get_blur that finds an
\* entry returns its SVG whatever the entry's age, and the entry stays.
C12_TtlDisabled ==
    (/\ lastBlur.op = "get_blur"
     /\ lastBlur.hit
     /\ (~blur_ttl_seconds.some \/ blur_ttl_seconds.v = 0))
        => /\ lastBlur.result = "Some"
           /\ lastBlur.svg = blur_cache[lastBlur.key].svg_data
           /\ blur_cache[lastBlur.key] # NoBlur

\* C16: when preload_disk_cache has returned Ok, every blur descriptor
\* whose .svg file is in the disk cache is in blur_cache with the file's
\* content and the time of the preload as created_at.
C16_PreloadRestores ==
    (lastBlur.op = "preload" /\ lastBlur.result = "Ok")
        => \A d \in BlurKeys :
              file_exists(d) => blur_cache[d] = BlurEntry(disk[d], now)

\* C17: a call of get_blur, hit or miss, leaves in_flight and its entries,
\* the semaphore, the running transforms and the disk cache as they are,
\* and changes blur_cache at most by removing the expired entry of the
\* descriptor it was called for.
C17_GetBlurFrame ==
    [][lastBlur'.op = "get_blur"
         => /\ UNCHANGED << in_flight, entries, stale, detached, permits,
                            closed, pc, disk >>
            /\ \A k \in BlurKeys :
                  \/ blur_cache'[k] = blur_cache[k]
                  \/ /\ k = lastBlur'.key
                     /\ Expired(blur_cache[k])
                     /\ blur_cache'[k] = NoBlur ]_vars

\* C17 witness: get_blur has missed on a descriptor while the placeholder
\* of another one is in blur_cache and on disk.
C17_MissBesideEntry ==
    /\ lastBlur.op = "get_blur"
    /\ ~lastBlur.hit
    /\ lastBlur.result = "None"
    /\ \E k \in BlurKeys : blur_cache[k] # NoBlur /\ file_exists(k)

\* C26: every call of get_blur returns, Some or None, in every state of
\* blur_cache, also the call that finds an entry older than the TTL.
C26_GetBlurReturns ==
    lastBlur.op = "get_blur" => lastBlur.result \in {"Some", "None"}

\* C27: an entry leaves blur_cache only in a get_blur on its own descriptor
\* that finds it older than the TTL.  No handler, preload, get_blur on
\* another descriptor or tick of the clock removes one.  (A new process
\* starts with an empty blur_cache: Restart is not an operation on the
\* cache.)
C27_LazyExpiryOnly ==
    [][\A k \in BlurKeys :
          (blur_cache[k] # NoBlur /\ blur_cache'[k] = NoBlur)
              => \/ lastBlur'.op = "new"
                 \/ /\ lastBlur'.op = "get_blur"
                    /\ lastBlur'.key = k
                    /\ Expired(blur_cache[k])]_vars

\* C27 witness: a get_blur on another descriptor has returned while an
\* entry older than the TTL, which no get_blur has read, is resident.
C27_ExpiredStaysResident ==
    \E k \in BlurKeys :
        /\ blur_cache[k] # NoBlur
        /\ Expired(blur_cache[k])
        /\ lastBlur.op = "get_blur"
        /\ lastBlur.key # k
        /\ lastBlur.result = "None"

\* C28: a get_blur(d) that directly follows a handler call for d that
\* returned without error returns the content of d's file, also when
\* blur_cache held an entry for d older than the TTL.
C28_FreshAfterHandler ==
    [][(/\ lastBlur.op = "handler"
        /\ lastBlur.result \in {"OkTrue", "OkFalse"}
        /\ lastBlur'.op = "get_blur"
        /\ lastBlur'.key = lastBlur.key)
           => /\ lastBlur'.result = "Some"
              /\ lastBlur'.svg = disk[lastBlur.key]]_vars

(***************************************************************************)
(* Properties of the upscale policy.                                       *)
(***************************************************************************)
\* the source of a request can be probed: it exists, is not empty, and
\* image::open reads its dimensions
Probed(img) ==
    /\ SourceInfo(img.src).exists
    /\ SourceInfo(img.src).len > 0
    /\ SourceInfo(img.src).decodable

\* C13: with no_upscale on and a readable source of size sw x sh, the
\* effective request of Resize (w, h, q) has the same source and quality,
\* and each dimension is the requested one when it is within the source's
\* and the source's otherwise, whatever the other dimension is.
C13_ClampedIndependently ==
    (/\ policy.stage = "done"
     /\ no_upscale
     /\ policy.image.option.tag = "r"
     /\ Probed(policy.image))
        => /\ policy.result.ok
           /\ policy.result.image.src = policy.image.src
           /\ policy.result.image.option.tag = "r"
           /\ policy.result.image.option.quality = policy.image.option.quality
           /\ policy.result.image.option.width =
                  (IF policy.image.option.width <= SourceInfo(policy.image.src).w
                   THEN policy.image.option.width
                   ELSE SourceInfo(policy.image.src).w)
           /\ policy.result.image.option.height =
                  (IF policy.image.option.height <= SourceInfo(policy.image.src).h
                   THEN policy.image.option.height
                   ELSE SourceInfo(policy.image.src).h)

\* C13 witness: a request wider than the source and lower than it has been
\* clamped in its width alone (source 2x2, request 3x1, effective 2x1).
C13_WidthAloneClamped ==
    /\ policy.stage = "done"
    /\ no_upscale
    /\ policy.image = CachedImage(SrcB, Resize(SrcSize + 1, SrcSize - 1, 75))
    /\ policy.result.ok
    /\ policy.result.image = CachedImage(SrcB, Resize(SrcSize, SrcSize - 1, 75))

\* C14: with no_upscale on, a Resize request whose source cannot be probed
\* (missing, empty, or not readable as an image) leaves the policy
\* unchanged and without an error.
C14_UnprobedProceeds ==
    (/\ policy.stage = "done"
     /\ no_upscale
     /\ policy.image.option.tag = "r"
     /\ ~Probed(policy.image))
        => /\ policy.result.ok
           /\ policy.result.image = policy.image

\* C29: the policy returns the request as it is, whatever the source is
\* (missing, empty, not an image, smaller than the request), when the
\* operation is Blur and when no_upscale is off.
C29_PolicyLeavesAlone ==
    (/\ policy.stage = "done"
     /\ policy.image.option.tag = "b" \/ ~no_upscale)
        => policy.result = [ok |-> TRUE, image |-> policy.image]

\* C29 witness: with no_upscale on, a Blur request on a source that is not
\* an image has gone through the policy and come back unchanged.
C29_BlurOnGarbage ==
    /\ policy.stage = "done"
    /\ no_upscale
    /\ policy.image.option.tag = "b"
    /\ policy.image.src = SrcGarbage
    /\ policy.result.ok
    /\ policy.result.image = policy.image

(***************************************************************************)
(* Properties of the orientation correction.                               *)
(***************************************************************************)

\* C31: in the Resize and in the Blur branch the image handed to resize is
\* the decoded image with the transform of the file's orientation code
\* applied when the code is in 2 .. 8, and the decoded image unchanged for
\* code 1 and for a file with no orientation.
C31_ResizeGetsOriented ==
    pipeline.stage = "resize" =>
        pipeline.out =
            (IF pipeline.exif.some /\ pipeline.exif.v \in 2 .. 8
             THEN fix_orientation_standard(pipeline.stored, pipeline.exif.v)
             ELSE pipeline.stored)

\* C32: fix_orientation_standard applied with code c to a picture stored
\* with orientation c, c in 1 .. 8, gives the upright picture; with a code
\* outside 1 .. 8 it gives the image it was given.
C32_StandardTable ==
    pipeline.stage = "fixed" =>
        pipeline.out = (IF pipeline.exif.v \in 1 .. 8 THEN pipeline.upright
                        ELSE pipeline.stored)

(***************************************************************************)
(* Properties of the codec.                                                *)
(***************************************************************************)

\* C9: from_file_path(d.get_file_path()) is Some(d) for every descriptor d,
\* Resize or Blur.
C9_FilePathRoundTrip ==
    codec.stage = "fromPath" => codec.back = Some(codec.d)

\* C24: from_file_path skips the parts of the path that are not base64, not
\* UTF-8 or not a descriptor, and returns the descriptor of the first part
\* that parses; it returns None only when no part parses.
C24_FirstParsingPart ==
    codec.stage = "fromPath" =>
        LET parts   == Split(codec.text, "/")
            parsing == { i \in 1 .. Len(parts) : ParsePart(parts[i]).ok }
        IN  IF parsing = {} THEN codec.back = None
            ELSE \E i \in parsing :
                    /\ \A j \in parsing : i <= j
                    /\ codec.back = ParsePart(parts[i])

\* C10: from_url_encoded(d.get_url_encoded(p)) is Ok of a descriptor equal
\* to d, for every descriptor d and handler path p.
C10_UrlRoundTrip ==
    codec.stage = "fromUrl" => codec.back = Some(codec.d)

\* C10 witness: a Blur descriptor whose src has characters that are
\* percent-encoded has gone to a URL under a non-empty handler path and
\* back.
C10_UrlDecoded ==
    /\ codec.stage = "fromUrl"
    /\ codec.d.option.tag = "b"
    /\ \E i \in 1 .. Len(codec.d.src) : codec.d.src[i] \in {"/", "+", " "}
    /\ codec.p # << >>
    /\ codec.back.ok

====
